---- MODULE Spec2Model ----
(***************************************************************************)
(* Model of graphql_ws/protocol.py: the message-envelope decoding and      *)
(* validation layer of the graphql-transport-ws protocol.                  *)
(*                                                                         *)
(* A Python/JSON value is a record [t, s, items]:                          *)
(*   t      the type tag: "null" (None), "bool", "num", "nan" (the float   *)
(*          the decoder makes of the constant NaN), "str", "arr" (list),   *)
(*          "obj" (dict), "mem" (one key/value member of a dict), "ref"    *)
(*          (a reference to an object the caller still holds);             *)
(*   s      the lexemes of a scalar: a string is the sequence of lexemes   *)
(*          of its content, so that a query string can be parsed;          *)
(*   items  the elements of a list, the members of a dict in insertion     *)
(*          order, the value of a member.                                  *)
(* A text is the sequence of tokens the JSON scanner cuts it into.         *)
(***************************************************************************)
EXTENDS Integers, Sequences, FiniteSets, TLC

VARIABLES
    text,   \* the frame given to loads
    data,   \* the decoded value the caller gives to load
    heap,   \* the objects of data the caller still holds, and may change
    outS,   \* the outcome of loads(text)
    outL,   \* the outcome of load(data)
    pay,    \* the outcome of OperationMessagePayload(data's payload)
    doc,    \* what the last access of pay's document property returned
    sub,    \* what has_subscription_operation returned
    eqRes,  \* what outS's message == outL's message returned
    calls,  \* the accesses of document so far
    muts    \* the changes the caller made to its objects so far

vars == <<text, data, heap, outS, outL, pay, doc, sub, eqRes, calls, muts>>

(***************************************************************************)
(* Values                                                                  *)
(***************************************************************************)
None == [t |-> "null", s |-> <<>>, items |-> <<>>]
Bool(b) == [t |-> "bool", s |-> <<b>>, items |-> <<>>]
Num(n) == [t |-> "num", s |-> <<n>>, items |-> <<>>]
NaN == [t |-> "nan", s |-> <<"NaN">>, items |-> <<>>]
Str(lex) == [t |-> "str", s |-> lex, items |-> <<>>]
Word(w) == Str(<<w>>)
Arr(xs) == [t |-> "arr", s |-> <<>>, items |-> xs]
Mem(key, v) == [t |-> "mem", s |-> key, items |-> <<v>>]
Obj(members) == [t |-> "obj", s |-> <<>>, items |-> members]
Ref(addr) == [t |-> "ref", s |-> <<addr>>, items |-> <<>>]

\* isinstance(v, dict)
IsDict(v) == v.t = "obj"

\* dict.__setitem__: a key already present keeps its position and takes the
\* new value; a new key goes last.
DictSet(members, key, v) ==
    IF \E i \in 1..Len(members) : members[i].s = key
    THEN [i \in 1..Len(members) |->
            IF members[i].s = key THEN Mem(key, v) ELSE members[i]]
    ELSE Append(members, Mem(key, v))

\* dict.get(key): the value bound to key, or None
DictGet(members, key) ==
    IF \E i \in 1..Len(members) : members[i].s = key
    THEN (members[CHOOSE i \in 1..Len(members) : members[i].s = key]).items[1]
    ELSE None

\* bool(v), as `payload or {}` tests it
Truthy(v) ==
    CASE v.t \in {"arr", "obj"} -> Len(v.items) > 0
      [] v.t = "str" -> Len(v.s) > 0
      [] v.t = "num" -> v.s # <<"0">>
      [] v.t = "bool" -> v.s = <<"true">>
      [] v.t = "null" -> FALSE
      [] OTHER -> TRUE

(***************************************************************************)
(* JSON texts: tokens                                                      *)
(***************************************************************************)
Tok(k) == [k |-> k, s |-> <<>>]
TStr(lex) == [k |-> "str", s |-> lex]
TNum(n) == [k |-> "num", s |-> <<n>>]
TJunk == [k |-> "junk", s |-> <<>>]

\* The result of a parsing step: the value read and the position after it.
POk(v, n) == [ok |-> TRUE, val |-> v, nxt |-> n]
PFail == [ok |-> FALSE, val |-> None, nxt |-> 0]

RECURSIVE ParseValue(_, _), ParseElems(_, _, _), ParseMembers(_, _, _)

\* json.decoder scan_once: one value starting at token i.  The decoder
\* accepts the constant NaN (as Infinity and -Infinity) besides the JSON
\* literals.
ParseValue(toks, i) ==
    IF i > Len(toks) THEN PFail
    ELSE LET tok == toks[i] IN
         CASE tok.k = "null" -> POk(None, i + 1)
           [] tok.k = "true" -> POk(Bool("true"), i + 1)
           [] tok.k = "false" -> POk(Bool("false"), i + 1)
           [] tok.k = "num" -> POk(Num(tok.s[1]), i + 1)
           [] tok.k = "nan" -> POk(NaN, i + 1)
           [] tok.k = "str" -> POk(Str(tok.s), i + 1)
           [] tok.k = "lbrack" ->
                IF i + 1 <= Len(toks) /\ toks[i + 1].k = "rbrack"
                THEN POk(Arr(<<>>), i + 2)
                ELSE ParseElems(toks, i + 1, <<>>)
           [] tok.k = "lbrace" ->
                IF i + 1 <= Len(toks) /\ toks[i + 1].k = "rbrace"
                THEN POk(Obj(<<>>), i + 2)
                ELSE ParseMembers(toks, i + 1, <<>>)
           [] OTHER -> PFail

\* JSONArray: value ("," value)* "]"
ParseElems(toks, i, acc) ==
    LET r == ParseValue(toks, i) IN
    IF ~r.ok \/ r.nxt > Len(toks) THEN PFail
    ELSE IF toks[r.nxt].k = "rbrack" THEN POk(Arr(Append(acc, r.val)), r.nxt + 1)
    ELSE IF toks[r.nxt].k = "comma" THEN ParseElems(toks, r.nxt + 1, Append(acc, r.val))
    ELSE PFail

\* JSONObject: string ":" value ("," string ":" value)* "}"; the pairs go
\* into a dict, so a repeated key keeps its first position and its last value.
ParseMembers(toks, i, acc) ==
    IF i + 1 > Len(toks) \/ toks[i].k # "str" \/ toks[i + 1].k # "colon" THEN PFail
    ELSE LET r == ParseValue(toks, i + 2) IN
         IF ~r.ok \/ r.nxt > Len(toks) THEN PFail
         ELSE LET acc2 == DictSet(acc, toks[i].s, r.val) IN
              IF toks[r.nxt].k = "rbrace" THEN POk(Obj(acc2), r.nxt + 1)
              ELSE IF toks[r.nxt].k = "comma" THEN ParseMembers(toks, r.nxt + 1, acc2)
              ELSE PFail

\* json.loads as raw_decode would do it: what follows the value is ignored
json_loads_ExtraData(toks) == ParseValue(toks, 1)

\* json.loads: one value and nothing after it ("Extra data" otherwise)
json_loads(toks) ==
    LET r == ParseValue(toks, 1) IN
    IF r.ok /\ r.nxt = Len(toks) + 1 THEN r ELSE PFail

(***************************************************************************)
(* Objects the caller still holds.  heap[a] is the present content of the  *)
(* object at address a; a value Ref(a) stands for that object itself.      *)
(***************************************************************************)
Deref(h, v) == IF v.t = "ref" THEN h[v.s[1]] ELSE v

(***************************************************************************)
(* Python equality of decoded values                                       *)
(***************************************************************************)
RECURSIVE PyEq(_, _, _)

\* a == b.  bool is a subclass of int (True == 1, False == 0); nan == nan is
\* false; lists compare element by element and dicts key by key.
PyEq(h, a0, b0) ==
    LET a == Deref(h, a0)
        b == Deref(h, b0)
        \* PyObject_RichCompareBool, used inside containers: identity first.
        \* Every NaN the decoder returns is the one float object of
        \* json.decoder, so two of them are identical.
        In(x, y) == (Deref(h, x).t = "nan" /\ Deref(h, y).t = "nan") \/ PyEq(h, x, y)
    IN
    CASE a.t = "nan" \/ b.t = "nan" -> FALSE
      [] a.t = "bool" /\ b.t = "num" ->
            (a.s = <<"true">> /\ b.s = <<"1">>) \/ (a.s = <<"false">> /\ b.s = <<"0">>)
      [] a.t = "num" /\ b.t = "bool" ->
            (b.s = <<"true">> /\ a.s = <<"1">>) \/ (b.s = <<"false">> /\ a.s = <<"0">>)
      [] a.t # b.t -> FALSE
      [] a.t = "arr" ->
            /\ Len(a.items) = Len(b.items)
            /\ \A i \in 1..Len(a.items) : In(a.items[i], b.items[i])
      [] a.t = "mem" -> a.s = b.s /\ In(a.items[1], b.items[1])
      [] a.t = "obj" ->
            /\ Len(a.items) = Len(b.items)
            /\ \A i \in 1..Len(a.items) :
                 /\ \E j \in 1..Len(b.items) : b.items[j].s = a.items[i].s
                 /\ In(a.items[i].items[1], DictGet(b.items, a.items[i].s))
      [] OTHER -> a.s = b.s

(***************************************************************************)
(* GQLMsgType                                                              *)
(***************************************************************************)
GQLMsgTypeMembers ==
    << [name |-> "CONNECTION_INIT", value |-> "connection_init"],
       [name |-> "CONNECTION_ACK", value |-> "connection_ack"],
       [name |-> "PING", value |-> "ping"],
       [name |-> "PONG", value |-> "pong"],
       [name |-> "SUBSCRIBE", value |-> "subscribe"],
       [name |-> "NEXT", value |-> "next"],
       [name |-> "ERROR", value |-> "error"],
       [name |-> "COMPLETE", value |-> "complete"] >>

\* GQLMsgType(v) looking the member up by its name too
GQLMsgTypeLookup_ByName(v) ==
    LET hit == {i \in 1..Len(GQLMsgTypeMembers) :
                  v.t = "str" /\ (v.s = <<GQLMsgTypeMembers[i].value>>
                                  \/ v.s = <<GQLMsgTypeMembers[i].name>>)}
    IN IF hit = {} THEN [ok |-> FALSE, member |-> ""]
       ELSE [ok |-> TRUE, member |-> GQLMsgTypeMembers[CHOOSE i \in hit : TRUE].name]

\* GQLMsgType(v): the member whose value is v, ValueError when there is none
\* (the lookup is by value, never by member name).
GQLMsgTypeLookup(v) ==
    LET hit == {i \in 1..Len(GQLMsgTypeMembers) :
                  v.t = "str" /\ v.s = <<GQLMsgTypeMembers[i].value>>}
    IN IF hit = {} THEN [ok |-> FALSE, member |-> ""]
       ELSE [ok |-> TRUE, member |-> GQLMsgTypeMembers[CHOOSE i \in hit : TRUE].name]

\* member.value
MemberValue(name) ==
    (GQLMsgTypeMembers[CHOOSE i \in 1..Len(GQLMsgTypeMembers) :
                          GQLMsgTypeMembers[i].name = name]).value

(***************************************************************************)
(* OperationMessagePayload                                                 *)
(***************************************************************************)
\* __init__ testing `if payload and not isinstance(payload, dict)`: every
\* falsy value passes for an empty payload
PayloadInit_Falsy(h, payload) ==
    LET p == Deref(h, payload)
        truthy == Truthy(p)
    IN IF truthy /\ ~IsDict(p)
       THEN [st |-> "InvalidPayloadShape", payload |-> None]
       ELSE [st |-> "ok", payload |-> IF truthy THEN payload ELSE Obj(<<>>)]

\* __init__: TypeError unless payload is None or a dict; self._payload is the
\* dict that was passed when it is not empty, else a new empty dict.
PayloadInit(h, payload) ==
    IF payload.t # "null" /\ ~IsDict(Deref(h, payload))
    THEN [st |-> "InvalidPayloadShape", payload |-> None]
    ELSE [st |-> "ok",
          payload |-> IF Truthy(Deref(h, payload)) THEN payload ELSE Obj(<<>>)]

\* the members of self._payload
PayloadItems(h, p) == Deref(h, p).items

\* __len__
PayloadLen(h, p) == Len(PayloadItems(h, p))

\* Mapping.get, and the query property
PayloadGet(h, p, key) == Deref(h, DictGet(PayloadItems(h, p), key))
PayloadQuery(h, p) == PayloadGet(h, p, <<"query">>)

\* __eq__ comparing list(self.items()) == list(other.items()), in order
PayloadEq_Ordered(h, p, q) ==
    PyEq(h, Arr(PayloadItems(h, p)), Arr(PayloadItems(h, q)))

\* Mapping.__eq__: dict(self.items()) == dict(other.items())
PayloadEq(h, p, q) == PyEq(h, Obj(PayloadItems(h, p)), Obj(PayloadItems(h, q)))

(***************************************************************************)
(* graphql.parse, the query-language parser the payload calls.  A source   *)
(* is the sequence of its lexemes.  The grammar kept: a document is one or *)
(* more definitions; a definition is a selection set (an anonymous query), *)
(* an operation (query | mutation | subscription, an optional name, a      *)
(* selection set), a fragment (fragment Name on Name, a selection set) or  *)
(* a type-system definition (scalar Name); a selection set is "{", one or  *)
(* more fields, "}"; a field is a name and an optional selection set.      *)
(* Keywords are names too: a field or an operation may be called           *)
(* subscription.                                                           *)
(***************************************************************************)
NotNames == {"{", "}", "0", "1", "2", "$"}
IsName(lex, i) == i <= Len(lex) /\ lex[i] \notin NotNames
OperationTypes == {"query", "mutation", "subscription"}

GDef(kind, op) == [kind |-> kind, operation |-> op]
GOk(defs, n) == [ok |-> TRUE, defs |-> defs, nxt |-> n]
GFail == [ok |-> FALSE, defs |-> <<>>, nxt |-> 0]

RECURSIVE ParseSelections(_, _, _), ParseDefinitions(_, _, _)

\* parse_selection_set, from the lexeme after "{": fields up to the "}"
ParseSelections(lex, i, n) ==
    IF i > Len(lex) THEN GFail
    ELSE IF lex[i] = "}" THEN (IF n > 0 THEN GOk(<<>>, i + 1) ELSE GFail)
    ELSE IF ~IsName(lex, i) THEN GFail
    ELSE IF i + 1 <= Len(lex) /\ lex[i + 1] = "{"
         THEN LET r == ParseSelections(lex, i + 2, 0) IN
              IF r.ok THEN ParseSelections(lex, r.nxt, n + 1) ELSE GFail
         ELSE ParseSelections(lex, i + 1, n + 1)

\* parse_selection_set at lexeme i
ParseSelectionSet(lex, i) ==
    IF i <= Len(lex) /\ lex[i] = "{" THEN ParseSelections(lex, i + 1, 0) ELSE GFail

\* parse_document: many(SOF, parse_definition, EOF)
ParseDefinitions(lex, i, acc) ==
    IF i > Len(lex) THEN (IF Len(acc) > 0 THEN GOk(acc, i) ELSE GFail)
    ELSE LET after(r, d) == IF r.ok THEN ParseDefinitions(lex, r.nxt, Append(acc, d))
                            ELSE GFail
         IN
         CASE lex[i] = "{" ->
                after(ParseSelectionSet(lex, i), GDef("OperationDefinition", "query"))
           [] lex[i] \in OperationTypes ->
                after(ParseSelectionSet(lex, IF IsName(lex, i + 1) THEN i + 2 ELSE i + 1),
                      GDef("OperationDefinition", lex[i]))
           [] lex[i] = "fragment" ->
                IF IsName(lex, i + 1) /\ lex[i + 1] # "on" /\ i + 2 <= Len(lex)
                   /\ lex[i + 2] = "on" /\ IsName(lex, i + 3)
                THEN after(ParseSelectionSet(lex, i + 4), GDef("FragmentDefinition", ""))
                ELSE GFail
           [] lex[i] = "scalar" ->
                IF IsName(lex, i + 1)
                THEN ParseDefinitions(lex, i + 2, Append(acc, GDef("ScalarTypeDefinition", "")))
                ELSE GFail
           [] OTHER -> GFail

\* graphql.parse(source): TypeError when source is no string,
\* GraphQLSyntaxError when it does not follow the grammar, else the document
graphql_parse(source) ==
    IF source.t # "str" THEN [st |-> "TypeError", defs |-> <<>>]
    ELSE LET r == ParseDefinitions(source.s, 1, <<>>) IN
         IF r.ok THEN [st |-> "tree", defs |-> r.defs]
         ELSE [st |-> "GraphQLSyntaxError", defs |-> <<>>]

\* the document property without its try/except
Document_Propagates(h, p) == graphql_parse(PayloadQuery(h, p))

\* the document property: graphql.parse(self.query), None on any exception
Document(h, p) ==
    LET r == graphql_parse(PayloadQuery(h, p)) IN
    IF r.st = "tree" THEN r ELSE [st |-> "absent", defs |-> <<>>]

\* has_subscription_operation with all(...) in the place of any(...)
HasSubscriptionOperation_All(h, p) ==
    LET document == Document(h, p) IN
    IF document.st # "absent"
    THEN \A i \in 1..Len(document.defs) :
            /\ document.defs[i].kind = "OperationDefinition"
            /\ document.defs[i].operation = "subscription"
    ELSE FALSE

\* the has_subscription_operation property
HasSubscriptionOperation(h, p) ==
    LET document == Document(h, p) IN
    IF document.st # "absent"
    THEN \E i \in 1..Len(document.defs) :
            /\ document.defs[i].kind = "OperationDefinition"
            /\ document.defs[i].operation = "subscription"
    ELSE FALSE

(***************************************************************************)
(* OperationMessage                                                        *)
(***************************************************************************)
Failure(kind) == [st |-> kind, type |-> "", id |-> None, payload |-> None]

\* __init__ keeping the id only when it is a string
MessageInit_StringId(h, type, id, payload) ==
    LET kind == GQLMsgTypeLookup(type)
        p == PayloadInit(h, payload)
    IN IF ~kind.ok THEN Failure("InvalidMessageKind")
       ELSE IF p.st # "ok" THEN Failure("InvalidPayloadShape")
       ELSE [st |-> "ok", type |-> kind.member,
             id |-> IF id.t = "str" THEN id ELSE None, payload |-> p.payload]

\* __init__ constructing the payload before the kind
MessageInit_PayloadFirst(h, type, id, payload) ==
    LET kind == GQLMsgTypeLookup(type)
        p == PayloadInit(h, payload)
    IN IF p.st # "ok" THEN Failure("InvalidPayloadShape")
       ELSE IF ~kind.ok THEN Failure("InvalidMessageKind")
       ELSE [st |-> "ok", type |-> kind.member, id |-> id, payload |-> p.payload]

\* __init__: the kind first, then the id as given, then the payload
MessageInit(h, type, id, payload) ==
    LET kind == GQLMsgTypeLookup(type)
        p == PayloadInit(h, payload)
    IN IF ~kind.ok THEN Failure("InvalidMessageKind")
       ELSE IF p.st # "ok" THEN Failure("InvalidPayloadShape")
       ELSE [st |-> "ok", type |-> kind.member, id |-> id, payload |-> p.payload]

\* __eq__
MessageEq(h, self, other) ==
    IF other.st # "ok" THEN FALSE
    ELSE /\ self.type = other.type
         /\ PyEq(h, self.id, other.id)
         /\ PayloadEq(h, self.payload, other.payload)

\* load testing `if not data`: an empty envelope is refused, and a list or
\* a string has no get()
load_Falsy(h, d) ==
    IF ~Truthy(d) THEN Failure("InvalidEnvelopeShape")
    ELSE IF ~IsDict(d) THEN Failure("AttributeError")
    ELSE MessageInit(h, DictGet(d.items, <<"type">>), DictGet(d.items, <<"id">>),
                     DictGet(d.items, <<"payload">>))

\* load
load(h, d) ==
    IF ~IsDict(d) THEN Failure("InvalidEnvelopeShape")
    ELSE MessageInit(h, DictGet(d.items, <<"type">>), DictGet(d.items, <<"id">>),
                     DictGet(d.items, <<"payload">>))

\* loads swallowing the decoder's error and loading an empty envelope
loads_SwallowsDecodeError(h, toks) ==
    LET r == json_loads(toks) IN
    IF ~r.ok THEN load(h, Obj(<<>>)) ELSE load(h, r.val)

\* loads
loads(h, toks) ==
    LET r == json_loads(toks) IN
    IF ~r.ok THEN Failure("MalformedJSON") ELSE load(h, r.val)

(***************************************************************************)
(* json.dumps, which writes the frames the session receives                *)
(***************************************************************************)
RECURSIVE Dumps(_), DumpsItems(_, _)

Dumps(v) ==
    CASE v.t = "null" -> <<Tok("null")>>
      [] v.t = "bool" -> <<Tok(v.s[1])>>
      [] v.t = "num" -> <<TNum(v.s[1])>>
      [] v.t = "nan" -> <<Tok("nan")>>
      [] v.t = "str" -> <<TStr(v.s)>>
      [] v.t = "mem" -> <<TStr(v.s), Tok("colon")>> \o Dumps(v.items[1])
      [] v.t = "arr" -> <<Tok("lbrack")>> \o DumpsItems(v.items, 1) \o <<Tok("rbrack")>>
      [] v.t = "obj" -> <<Tok("lbrace")>> \o DumpsItems(v.items, 1) \o <<Tok("rbrace")>>

DumpsItems(items, i) ==
    IF i > Len(items) THEN <<>>
    ELSE Dumps(items[i])
         \o (IF i < Len(items) THEN <<Tok("comma")>> ELSE <<>>)
         \o DumpsItems(items, i + 1)

(***************************************************************************)
(* The JSON grammar of RFC 8259 over tokens, as a recognizer: Ends(i) is   *)
(* the set of positions at which a value starting at token i may end.      *)
(* With ext the grammar also has the constant NaN.                         *)
(***************************************************************************)
RECURSIVE ValueEnds(_, _, _), ElementEnds(_, _, _), MemberEnds(_, _, _)

ValueEnds(toks, i, ext) ==
    IF i > Len(toks) THEN {}
    ELSE IF toks[i].k \in {"null", "true", "false", "num", "str"} THEN {i + 1}
    ELSE IF toks[i].k = "nan" THEN (IF ext THEN {i + 1} ELSE {})
    ELSE IF toks[i].k = "lbrack"
         THEN {i + 2 : x \in {y \in {i + 1} : y <= Len(toks) /\ toks[y].k = "rbrack"}}
              \cup ElementEnds(toks, i + 1, ext)
    ELSE IF toks[i].k = "lbrace"
         THEN {i + 2 : x \in {y \in {i + 1} : y <= Len(toks) /\ toks[y].k = "rbrace"}}
              \cup MemberEnds(toks, i + 1, ext)
    ELSE {}

ElementEnds(toks, i, ext) ==
    UNION {IF j > Len(toks) THEN {}
           ELSE IF toks[j].k = "rbrack" THEN {j + 1}
           ELSE IF toks[j].k = "comma" THEN ElementEnds(toks, j + 1, ext)
           ELSE {} : j \in ValueEnds(toks, i, ext)}

MemberEnds(toks, i, ext) ==
    IF i + 1 > Len(toks) \/ toks[i].k # "str" \/ toks[i + 1].k # "colon" THEN {}
    ELSE UNION {IF j > Len(toks) THEN {}
                ELSE IF toks[j].k = "rbrace" THEN {j + 1}
                ELSE IF toks[j].k = "comma" THEN MemberEnds(toks, j + 1, ext)
                ELSE {} : j \in ValueEnds(toks, i + 2, ext)}

\* the text is a JSON text of RFC 8259
IsJSON(toks) == Len(toks) + 1 \in ValueEnds(toks, 1, FALSE)
\* the text is a JSON text, or one but for constants NaN in the place of values
IsJSONWithConstants(toks) == Len(toks) + 1 \in ValueEnds(toks, 1, TRUE)

(***************************************************************************)
(* Bounds                                                                  *)
(***************************************************************************)
\* the longest query drawn from every sequence of QueryAlphabet
MaxQueryLen == 4
\* the token positions at which a frame is damaged
MaxCorruptPos == 8
\* the accesses of the document property in one session
MaxCalls == 2
\* the changes the caller makes to its own objects in one session
MaxMutations == 1

(***************************************************************************)
(* The inputs of a session                                                 *)
(***************************************************************************)
Absent == [t |-> "absent", s |-> <<>>, items |-> <<>>]

\* the envelope {"type": typ, "id": id, "payload": pl}, without the keys
\* whose value is Absent
Env(typ, id, pl) ==
    Obj(SelectSeq(<<Mem(<<"type">>, typ), Mem(<<"id">>, id), Mem(<<"payload">>, pl)>>,
                  LAMBDA m : m.items[1].t # "absent"))

Query(lex) == Obj(<<Mem(<<"query">>, Str(lex))>>)

CanonicalTypes == {Word(GQLMsgTypeMembers[i].value) : i \in 1..Len(GQLMsgTypeMembers)}
SomeTypes == {Absent, Word("ping"), Word("subscribe"), Word("nope"), Num("1")}
OtherTypes == {Word("PING"), Word("GQLMsgType.PING"), None, Str(<<"ping", "pong">>),
               Str(<<>>), Arr(<<Word("ping")>>), Bool("true")}
Ids == {Absent, None, Word("1"), Num("1"), Bool("true"), NaN, Arr(<<Num("1")>>)}

Pab == Obj(<<Mem(<<"a">>, Num("1")), Mem(<<"b">>, Word("x"))>>)
Pba == Obj(<<Mem(<<"b">>, Word("x")), Mem(<<"a">>, Num("1"))>>)
GoodPayloads ==
    {Absent, None, Obj(<<>>), Pab, Pba,
     Obj(<<Mem(<<"a">>, Num("1"))>>), Obj(<<Mem(<<"a">>, Bool("true"))>>),
     Obj(<<Mem(<<"a">>, NaN)>>),
     Query(<<"subscription", "{", "onThing", "}">>)}
BadPayloads ==
    {Arr(<<>>), Str(<<>>), Num("0"), Bool("false"),
     Arr(<<Num("1"), Num("2")>>), Word("x"), Num("1"), Bool("true"), NaN}

QueryAlphabet == {"{", "}", "a", "subscription"}
Queries ==
    UNION {[1..n -> QueryAlphabet] : n \in 0..MaxQueryLen}
    \cup {<<"{", "__typename", "}">>,
          <<"not", "valid", "{", "{">>,
          <<"mutation", "{", "a", "}">>,
          <<"query", "{", "a", "}">>,
          <<"query", "subscription", "{", "a", "}">>,
          <<"subscription", "query", "{", "a", "}">>,
          <<"fragment", "F", "on", "T", "{", "a", "}">>,
          <<"fragment", "subscription", "on", "T", "{", "a", "}">>,
          <<"fragment", "on", "on", "T", "{", "a", "}">>,
          <<"scalar", "subscription">>,
          <<"scalar", "S", "fragment", "F", "on", "T", "{", "a", "}">>,
          <<"{", "a", "{", "subscription", "}", "}">>,
          <<"query", "Q", "{", "a", "}", "subscription", "S", "{", "a", "}">>,
          <<"query", "Q", "{", "a", "}", "mutation", "M", "{", "a", "}">>,
          <<"fragment", "F", "on", "T", "{", "a", "}", "subscription", "{", "a", "}">>,
          <<"subscription", "{", "a", "}", "$">>}
QueryPayloads ==
    {Query(q) : q \in Queries}
    \cup {Obj(<<Mem(<<"query">>, v)>>) :
            v \in {None, Num("1"), Arr(<<Word("{"), Word("a"), Word("}")>>)}}
    \cup {Obj(<<Mem(<<"variables">>, Obj(<<>>)),
                Mem(<<"query">>, Str(<<"subscription", "{", "a", "}">>))>>)}

Envelopes ==
    {Env(t, i, p) : t \in SomeTypes, i \in Ids, p \in GoodPayloads \cup BadPayloads}
    \cup {Env(t, Word("1"), p) : t \in CanonicalTypes \cup OtherTypes,
                                 p \in {Absent, Pab, Arr(<<>>)}}
    \cup {Env(Word("subscribe"), Word("1"), p) : p \in QueryPayloads}
TopLevels ==
    {Arr(<<Num("1"), Num("2")>>), Arr(<<>>), Word("x"), Str(<<>>), Num("0"), Num("1"),
     Bool("true"), Bool("false"), None, NaN, Obj(<<>>)}
Inputs == Envelopes \cup TopLevels

\* The envelopes a second frame is written from, to compare two messages:
\* d with one of its three fields changed.
PairBase == {Env(t, i, p) : t \in {Word("ping"), Word("subscribe")}, i \in Ids,
                            p \in GoodPayloads}
Variants(d) ==
    LET t == DictGet(d.items, <<"type">>)
        has(key) == \E j \in 1..Len(d.items) : d.items[j].s = key
        i == IF has(<<"id">>) THEN DictGet(d.items, <<"id">>) ELSE Absent
        p == IF has(<<"payload">>) THEN DictGet(d.items, <<"payload">>) ELSE Absent
    IN {Env(t2, i, p) : t2 \in {Word("ping"), Word("subscribe")}}
       \cup {Env(t, i2, p) : i2 \in Ids}
       \cup {Env(t, i, p2) : p2 \in GoodPayloads}

\* Damaged frames: a token lost, replaced or added.
RemoveAt(toks, i) == SubSeq(toks, 1, i - 1) \o SubSeq(toks, i + 1, Len(toks))
ReplaceAt(toks, i, tok) == [toks EXCEPT ![i] = tok]
InsertAt(toks, i, tok) == SubSeq(toks, 1, i - 1) \o <<tok>> \o SubSeq(toks, i, Len(toks))
Corruptions(toks) ==
    LET pos == {i \in 1..Len(toks) : i <= MaxCorruptPos} IN
    {RemoveAt(toks, i) : i \in pos}
    \cup {ReplaceAt(toks, i, tok) : i \in pos, tok \in {TJunk, Tok("nan")}}
    \cup {InsertAt(toks, i, tok) : i \in pos, tok \in {Tok("comma"), TStr(<<"type">>)}}
    \cup {toks \o <<tok>> : tok \in {TJunk, Tok("rbrace"), Tok("null")}}
CorruptBase ==
    {Env(Word("ping"), Word("1"), Pab),
     Env(Word("subscribe"), Num("1"), Query(<<"{", "a", "}">>)),
     Env(Word("nope"), Absent, Arr(<<Num("1"), Num("2")>>)),
     Arr(<<Num("1"), Num("2")>>)}
\* frames with a key twice
Repeated ==
    {<<Tok("lbrace"), TStr(<<"type">>), Tok("colon"), TStr(<<"nope">>), Tok("comma"),
       TStr(<<"id">>), Tok("colon"), TNum("1"), Tok("comma"),
       TStr(<<"type">>), Tok("colon"), TStr(<<"ping">>), Tok("rbrace")>>,
     <<Tok("lbrace"), TStr(<<"type">>), Tok("colon"), TStr(<<"ping">>), Tok("comma"),
       TStr(<<"type">>), Tok("colon"), TNum("1"), Tok("rbrace")>>}

\* <<the value given to load, the frame given to loads>>
Sessions ==
    {<<d, Dumps(d)>> : d \in Inputs}
    \cup UNION {{<<d, Dumps(d2)>> : d2 \in Variants(d)} : d \in PairBase}
    \cup UNION {{<<d, c>> : c \in Corruptions(Dumps(d))} : d \in CorruptBase}
    \cup {<<Env(Word("ping"), Num("1"), Absent), r>> : r \in Repeated}
    \cup {<<None, <<>>>>}

\* The caller keeps the list or dict bound to "id" and to "payload": data
\* holds them by reference.
IsContainer(v) == v.t \in {"arr", "obj"}
Held(key) == IF key = <<"payload">> THEN "raw" ELSE "rawId"
Share(d) ==
    IF ~IsDict(d) THEN d
    ELSE Obj([j \in 1..Len(d.items) |->
                IF d.items[j].s \in {<<"id">>, <<"payload">>}
                   /\ IsContainer(d.items[j].items[1])
                THEN Mem(d.items[j].s, Ref(Held(d.items[j].s)))
                ELSE d.items[j]])
HeapOf(d) ==
    LET obj(key) == IF IsDict(d) /\ IsContainer(DictGet(d.items, key))
                    THEN DictGet(d.items, key) ELSE None
    IN [raw |-> obj(<<"payload">>), rawId |-> obj(<<"id">>)]

\* what the caller passes to OperationMessagePayload(...)
RawArg(d) == IF IsDict(d) THEN DictGet(d.items, <<"payload">>) ELSE d

\* a message as its accessors show it at this moment
View(h, m) == [st |-> m.st, type |-> m.type, id |-> Deref(h, m.id),
               payload |-> Deref(h, m.payload)]

NoOutcome == Failure("none")
NoDoc == [st |-> "none", defs |-> <<>>, q |-> None]
NoSub == [st |-> "none", val |-> FALSE, q |-> None]
NoEq == [st |-> "none", val |-> FALSE, a |-> NoOutcome, b |-> NoOutcome]

Init ==
    \E p \in Sessions :
        /\ text = p[2]
        /\ data = Share(p[1])
        /\ heap = HeapOf(p[1])
        /\ outS = NoOutcome
        /\ outL = NoOutcome
        /\ pay = [st |-> "none", payload |-> None]
        /\ doc = NoDoc
        /\ sub = NoSub
        /\ eqRes = NoEq
        /\ calls = 0
        /\ muts = 0

(***************************************************************************)
(* The operations                                                          *)
(***************************************************************************)
\* OperationMessage.loads(text)
Loads ==
    /\ outS.st = "none"
    /\ outS' = loads(heap, text)
    /\ UNCHANGED <<text, data, heap, outL, pay, doc, sub, eqRes, calls, muts>>

\* OperationMessage.load(data)
Load ==
    /\ outS.st # "none" /\ outL.st = "none"
    /\ outL' = load(heap, data)
    /\ UNCHANGED <<text, data, heap, outS, pay, doc, sub, eqRes, calls, muts>>

\* OperationMessagePayload(raw)
MkPayload ==
    /\ outL.st # "none" /\ pay.st = "none"
    /\ pay' = PayloadInit(heap, RawArg(data))
    /\ UNCHANGED <<text, data, heap, outS, outL, doc, sub, eqRes, calls, muts>>

\* outS's message == outL's message (or what load failed on, no message)
Eq ==
    /\ pay.st # "none" /\ eqRes.st = "none" /\ outS.st = "ok"
    /\ eqRes' = [st |-> "done", val |-> MessageEq(heap, outS, outL),
                 a |-> View(heap, outS), b |-> View(heap, outL)]
    /\ UNCHANGED <<text, data, heap, outS, outL, pay, doc, sub, calls, muts>>

\* pay.document
AccessDocument ==
    /\ pay.st = "ok" /\ (eqRes.st # "none" \/ outS.st # "ok") /\ calls < MaxCalls
    /\ doc' = [st |-> Document(heap, pay.payload).st,
               defs |-> Document(heap, pay.payload).defs,
               q |-> PayloadQuery(heap, pay.payload)]
    /\ calls' = calls + 1
    /\ UNCHANGED <<text, data, heap, outS, outL, pay, sub, eqRes, muts>>

\* pay.has_subscription_operation
AccessHasSubscription ==
    /\ doc.st # "none" /\ sub.st = "none"
    /\ sub' = [st |-> "done", val |-> HasSubscriptionOperation(heap, pay.payload),
               q |-> PayloadQuery(heap, pay.payload)]
    /\ UNCHANGED <<text, data, heap, outS, outL, pay, doc, eqRes, calls>>
    /\ UNCHANGED muts

\* The caller changes, in place, the dict it passed as the payload ...
MutatePayload ==
    /\ pay.st # "none" /\ muts < MaxMutations /\ IsDict(heap.raw)
    /\ \E w \in {<<<<"query">>, Str(<<"subscription", "{", "a", "}">>)>>,
                 <<<<"z">>, Num("1")>>} :
          heap' = [heap EXCEPT !.raw = Obj(DictSet(heap.raw.items, w[1], w[2]))]
    /\ muts' = muts + 1
    /\ UNCHANGED <<text, data, outS, outL, pay, doc, sub, eqRes, calls>>

\* ... or the list it passed as the id.
MutateId ==
    /\ pay.st # "none" /\ muts < MaxMutations /\ heap.rawId.t = "arr"
    /\ heap' = [heap EXCEPT !.rawId = Arr(Append(heap.rawId.items, Num("2")))]
    /\ muts' = muts + 1
    /\ UNCHANGED <<text, data, outS, outL, pay, doc, sub, eqRes, calls>>

Next ==
    \/ Loads
    \/ Load
    \/ MkPayload
    \/ Eq
    \/ AccessDocument
    \/ AccessHasSubscription
    \/ MutatePayload
    \/ MutateId

Spec == Init /\ [][Next]_vars

(***************************************************************************)
(* What the claims speak of                                                *)
(***************************************************************************)
\* the eight canonical type strings
CanonicalStrings == {"connection_init", "connection_ack", "ping", "pong",
                     "subscribe", "next", "error", "complete"}
IsCanonical(v) == v.t = "str" /\ Len(v.s) = 1 /\ v.s[1] \in CanonicalStrings

\* data as a plain value: the caller's objects in the place of the references
Unshare(h, d) ==
    IF ~IsDict(d) THEN d
    ELSE Obj([j \in 1..Len(d.items) |-> Mem(d.items[j].s, Deref(h, d.items[j].items[1]))])

\* the caller has changed nothing yet, and the frame is data written out
FrameOfData == muts = 0 /\ text = Dumps(Unshare(heap, data))

\* the fields of the envelope data
DataType == DictGet(data.items, <<"type">>)
DataId == Deref(heap, DictGet(data.items, <<"id">>))
DataPayload == Deref(heap, DictGet(data.items, <<"payload">>))

\* the set of key/value pairs of a dict
PairSet(members) == {<<members[j].s, members[j].items[1]>> : j \in 1..Len(members)}

\* what loads and load must agree on when the frame is data written out
LoadsAgreesWithLoad ==
    (outL.st # "none" /\ FrameOfData) => View(heap, outS) = View(heap, outL)

\* C1 as claimed: loads(text) fails with MalformedJSON when the text is not
\* syntactically valid JSON (RFC 8259), and otherwise ends as load ends on
\* the decoded value.
C1_AsClaimed ==
    outS.st # "none" =>
        IF ~IsJSON(text) THEN outS.st = "MalformedJSON"
        ELSE outS.st # "MalformedJSON" /\ LoadsAgreesWithLoad

\* C1 as amended: loads(text) fails with MalformedJSON exactly when the text
\* is neither valid JSON nor valid but for the constants the decoder accepts
\* in the place of a value (NaN, Infinity, -Infinity); otherwise it ends as
\* load ends on the decoded value.
C1_LoadsDecodesThenLoads ==
    outS.st # "none" =>
        IF ~IsJSONWithConstants(text) THEN outS.st = "MalformedJSON"
        ELSE outS.st # "MalformedJSON" /\ LoadsAgreesWithLoad

C1_Witness ==
    /\ outS.st = "ok" /\ outL.st = "ok" /\ FrameOfData
    /\ Len(View(heap, outS).payload.items) = 2
    /\ ~IsJSON(text)

\* C2: load fails with InvalidEnvelopeShape if and only if the decoded
\* top-level value is not object-shaped; through loads, if and only if the
\* frame is accepted and does not open with a brace.
C2_EnvelopeShape ==
    /\ outL.st # "none" => (outL.st = "InvalidEnvelopeShape" <=> data.t # "obj")
    /\ outS.st # "none" =>
         (outS.st = "InvalidEnvelopeShape"
            <=> (IsJSONWithConstants(text) /\ text[1].k # "lbrace"))

C2_Witness ==
    /\ outL.st = "InvalidEnvelopeShape" /\ data.t = "arr" /\ Len(data.items) = 2
    /\ outS.st = "InvalidEnvelopeShape"

\* C3: the kind is constructed if and only if "type" is one of the eight
\* canonical strings, and then its value is that string; every other value,
\* an absent "type" included, fails with InvalidMessageKind.
C3_MessageKind ==
    (outL.st # "none" /\ IsDict(data)) =>
        IF IsCanonical(DataType)
        THEN /\ outL.st \in {"ok", "InvalidPayloadShape"}
             /\ outL.st = "ok" => MemberValue(outL.type) = DataType.s[1]
        ELSE outL.st = "InvalidMessageKind"

C3_Witness ==
    /\ outL.st = "ok" /\ outL.type = "CONNECTION_ACK"
    /\ DataType = Word("connection_ack")

\* C4: the payload is constructed exactly from an object or from None
\* (absent or null); None gives an empty mapping equal to Payload({}), an
\* object gives its own key/value pairs, every other shape fails with
\* InvalidPayloadShape.
C4_PayloadShape ==
    pay.st # "none" =>
        LET raw == Deref(heap, RawArg(data)) IN
        /\ pay.st = (IF raw.t \in {"null", "obj"} THEN "ok" ELSE "InvalidPayloadShape")
        /\ raw.t = "null" =>
             /\ PayloadLen(heap, pay.payload) = 0
             /\ PayloadEq(heap, pay.payload, PayloadInit(heap, Obj(<<>>)).payload)
        /\ (raw.t = "obj" /\ muts = 0) =>
             /\ PairSet(PayloadItems(heap, pay.payload)) = PairSet(raw.items)
             /\ PayloadLen(heap, pay.payload) = Len(raw.items)

C4_Witness ==
    /\ pay.st = "ok" /\ Deref(heap, RawArg(data)).t = "obj"
    /\ PayloadLen(heap, pay.payload) = 2 /\ muts = 0

\* C5 as claimed: once constructed, a payload and a message show the same
\* kind, id and contents whatever happens later, the caller changing the
\* objects it passed included.
C5_Immutable ==
    [][/\ pay.st = "ok" => PayloadItems(heap', pay'.payload) = PayloadItems(heap, pay.payload)
       /\ outL.st = "ok" => View(heap', outL') = View(heap, outL)
       /\ outS.st = "ok" => View(heap', outS') = View(heap, outS)]_vars

\* Python equality of two values without dicts among them, spelled out:
\* booleans are the numbers 1 and 0, and NaN equals nothing but itself, the
\* same object, inside a container.
RECURSIVE Canon(_)
Canon(v) ==
    CASE v.t = "bool" -> Num(IF v.s = <<"true">> THEN "1" ELSE "0")
      [] v.t = "arr" -> Arr([j \in 1..Len(v.items) |-> Canon(v.items[j])])
      [] OTHER -> v
EqualValues(a, b) == a.t # "nan" /\ b.t # "nan" /\ Canon(a) = Canon(b)
CanonPairs(members) ==
    {<<members[j].s, Canon(members[j].items[1])>> : j \in 1..Len(members)}

\* the frame binds "payload" to nothing, to null or to {}
FrameWithoutPayload ==
    \A j \in 1..Len(text) :
        text[j] = TStr(<<"payload">>) =>
            \/ text[j + 2].k = "null"
            \/ text[j + 2].k = "lbrace" /\ text[j + 3].k = "rbrace"

RECURSIVE Depth(_, _)
Depth(lex, i) ==
    IF i <= 1 THEN 0
    ELSE Depth(lex, i - 1)
         + (IF lex[i - 1] = "{" THEN 1 ELSE IF lex[i - 1] = "}" THEN -1 ELSE 0)

\* C7: has_subscription_operation is true if and only if the document is a
\* syntax tree and one of its top-level definitions is an operation typed
\* subscription; it is false without a document, without operations and
\* when every operation is a query or a mutation.
C7_HasSubscription ==
    sub.st = "done" =>
        LET d == graphql_parse(sub.q) IN
        /\ sub.val <=>
             /\ d.st = "tree"
             /\ \E j \in 1..Len(d.defs) :
                  d.defs[j] = GDef("OperationDefinition", "subscription")
        /\ sub.val =>
             /\ sub.q.t = "str"
             /\ \E j \in 1..Len(sub.q.s) :
                  sub.q.s[j] = "subscription" /\ Depth(sub.q.s, j) = 0
        /\ (/\ d.st = "tree"
            /\ \A j \in 1..Len(d.defs) :
                 d.defs[j].kind = "OperationDefinition"
                    => d.defs[j].operation \in {"query", "mutation"}) => ~sub.val

C7_Witness ==
    /\ sub.st = "done" /\ sub.val /\ muts = 0
    /\ doc.st = "tree" /\ Len(doc.defs) = 2
    /\ doc.defs[1] = GDef("OperationDefinition", "query")

C9_LoadSucceeds ==
    (/\ outL.st # "none" /\ IsDict(data)
     /\ IsCanonical(DataType)
     /\ DataPayload.t \in {"null", "obj"}) =>
        /\ outL.st = "ok"
        /\ MemberValue(outL.type) = DataType.s[1]
        /\ View(heap, outL).id = DataId
        /\ muts = 0 => View(heap, outL).payload.items = DataPayload.items

C9_Witness ==
    /\ outL.st = "ok" /\ outL.type = "SUBSCRIBE" /\ muts = 0
    /\ View(heap, outL).id = Arr(<<Num("1")>>)
    /\ Len(View(heap, outL).payload.items) = 2

\* the failure the order JSON syntax, envelope shape, message kind, payload
\* shape reports for a value, "ok" when no stage fails
FirstFailure(v) ==
    IF v.t # "obj" THEN "InvalidEnvelopeShape"
    ELSE IF ~IsCanonical(DictGet(v.items, <<"type">>)) THEN "InvalidMessageKind"
    ELSE IF DictGet(v.items, <<"payload">>).t \notin {"null", "obj"}
         THEN "InvalidPayloadShape"
    ELSE "ok"

\* C10: the first failing stage, in the order JSON syntax, envelope shape,
\* message kind, payload shape, decides the failure: an envelope with a bad
\* or missing "type" and a bad payload fails with InvalidMessageKind, and
\* InvalidPayloadShape is reported only when "type" is canonical.
C10_ValidationOrder ==
    /\ outL.st # "none" =>
         /\ outL.st = FirstFailure(Unshare(heap, data))
         /\ outL.st = "InvalidPayloadShape" => IsCanonical(DataType)
    /\ outS.st # "none" =>
         /\ ~IsJSONWithConstants(text) => outS.st = "MalformedJSON"
         /\ (FrameOfData /\ IsJSONWithConstants(text))
               => outS.st = FirstFailure(Unshare(heap, data))

C10_Witness ==
    /\ outL.st = "InvalidMessageKind" /\ outS.st = "InvalidMessageKind"
    /\ IsDict(data) /\ DataType = None
    /\ DataPayload.t = "arr"

====
